---------------------------- MODULE Spec2Model ----------------------------
(***************************************************************************)
(* A model of alpha_db: the record store (src/src/Table.js), the catalog   *)
(* (src/src/Database.js) and the query parser/executor (SQLParser, in      *)
(* src/unnamed/part_000).  One database directory, one process; every      *)
(* exposed operation runs to completion before the next starts.            *)
(***************************************************************************)
EXTENDS Integers, Sequences, FiniteSets, TLC

(***************************************************************************)
(* Bounds of the model.                                                    *)
(***************************************************************************)
\* A call of Table is offered while it leaves no more than MaxRows records
\* in the collection, a query while it leaves no more than MaxQueryRows.
MaxRows == 2
MaxQueryRows == 3
\* ... and no id above MaxId.
MaxId == 3
\* ... and no index bucket with more than MaxBucket positions.
MaxBucket == 2

(***************************************************************************)
(* JavaScript values.  A value is a record [t, n, s]: t is the type tag,   *)
(* n the numeric payload, s the textual payload.                           *)
(***************************************************************************)
Undef == [t |-> "undefined", n |-> 0, s |-> ""]
Null == [t |-> "null", n |-> 0, s |-> ""]
NaN == [t |-> "number", n |-> 0, s |-> "NaN"]
\* A property that the object does not have ("column in record" is false).
Absent == [t |-> "absent", n |-> 0, s |-> ""]
\* An operator mapping {op: literal}, where it is used as a plain value.
OpObject == [t |-> "object", n |-> 0, s |-> ""]
Num(k) == [t |-> "number", n |-> k, s |-> ""]
Str(x) == [t |-> "string", n |-> 0, s |-> x]
Bool(b) == [t |-> "boolean", n |-> IF b THEN 1 ELSE 0, s |-> ""]
\* A Date object, named by its ISO text (what toJSON prints).
DateV(iso) == [t |-> "date", n |-> 0, s |-> iso]

IsNaN(v) == v.t = "number" /\ v.s = "NaN"

\* The decimal text of the numbers the model uses (String(n), and back).
NumText ==
  << <<-1, "-1">>, <<0, "0">>, <<1, "1">>, <<2, "2">>, <<3, "3">>, <<4, "4">>,
     <<5, "5">>, <<6, "6">>, <<7, "7">>, <<18, "18">>, <<30, "30">> >>

NumStr(k) ==
  LET hits == {i \in 1..Len(NumText) : NumText[i][1] = k}
  IN  NumText[CHOOSE i \in hits : TRUE][2]

IsNumericText(x) == \E i \in 1..Len(NumText) : NumText[i][2] = x

TextNum(x) == NumText[CHOOSE i \in 1..Len(NumText) : NumText[i][2] = x][1]

\* Texts Date.parse accepts, with the ISO text of the Date they denote and
\* the day number of that date (its order among numbers).
DateText ==
  << <<"2020-01-01", "2020-01-01T00:00:00.000Z", 18262>>,
     <<"2020-01-01T00:00:00.000Z", "2020-01-01T00:00:00.000Z", 18262>> >>

IsDateText(x) == \E i \in 1..Len(DateText) : DateText[i][1] = x

DateIso(x) == DateText[CHOOSE i \in 1..Len(DateText) : DateText[i][1] = x][2]

DateDay(iso) == DateText[CHOOSE i \in 1..Len(DateText) : DateText[i][2] = iso][3]

\* The strings of the model in code-unit order (the order of < on strings).
StrOrder ==
  <<"", "-1", "0", "1", "18", "2", "2020-01-01", "2020-01-01T00:00:00.000Z",
    "3", "30", "4", "5", "6", "7", "Ann", "Bo", "Cy", "True", "abc", "false",
    "true">>

StrRank(x) == CHOOSE i \in 1..Len(StrOrder) : StrOrder[i] = x

\* ToNumber
ToNumber(v) ==
  CASE v.t = "number" -> v
    [] v.t = "boolean" -> Num(v.n)
    [] v.t = "null" -> Num(0)
    [] v.t = "string" ->
         IF v.s = "" THEN Num(0)
         ELSE IF IsNumericText(v.s) THEN Num(TextNum(v.s)) ELSE NaN
    [] v.t = "date" -> Num(DateDay(v.s))
    [] OTHER -> NaN

\* String(v): also the property key an index bucket is stored under.
ToStr(v) ==
  CASE v.t = "string" -> v.s
    [] v.t = "number" -> IF IsNaN(v) THEN "NaN" ELSE NumStr(v.n)
    [] v.t = "boolean" -> IF v.n = 1 THEN "true" ELSE "false"
    [] v.t = "null" -> "null"
    [] v.t = "undefined" -> "undefined"
    [] v.t = "date" -> "Wed Jan 01 2020"
    [] OTHER -> "[object Object]"

\* Boolean(v)
Truthy(v) ==
  CASE v.t = "number" -> ~IsNaN(v) /\ v.n # 0
    [] v.t = "string" -> v.s # ""
    [] v.t = "boolean" -> v.n = 1
    [] v.t \in {"null", "undefined", "absent"} -> FALSE
    [] OTHER -> TRUE

\* a === b.  Two Date objects are equal only when they are the same object;
\* the model compares Dates of distinct objects only.
StrictEq(a, b) ==
  /\ a.t = b.t
  /\ a.t \notin {"date", "object"}
  /\ ~IsNaN(a)
  /\ a = b

NumEq(a, b) == ~IsNaN(a) /\ ~IsNaN(b) /\ a.n = b.n

\* a == b
LooseEq(a, b) ==
  CASE a.t = b.t -> StrictEq(a, b)
    [] a.t \in {"null", "undefined"} /\ b.t \in {"null", "undefined"} -> TRUE
    [] a.t \in {"null", "undefined"} \/ b.t \in {"null", "undefined"} -> FALSE
    [] a.t \in {"date", "object"} \/ b.t \in {"date", "object"} -> FALSE
    [] OTHER -> NumEq(ToNumber(a), ToNumber(b))

\* a < b
LessThan(a, b) ==
  IF a.t = "string" /\ b.t = "string"
  THEN StrRank(a.s) < StrRank(b.s)
  ELSE LET x == ToNumber(a)
           y == ToNumber(b)
       IN  ~IsNaN(x) /\ ~IsNaN(y) /\ x.n < y.n

\* a <= b
LessEq(a, b) ==
  IF a.t = "string" /\ b.t = "string"
  THEN StrRank(a.s) <= StrRank(b.s)
  ELSE LET x == ToNumber(a)
           y == ToNumber(b)
       IN  ~IsNaN(x) /\ ~IsNaN(y) /\ x.n <= y.n

\* The LIKE patterns of the model: new RegExp('^' + pattern + '$').test(text)
LikeMatch(pattern, text) ==
  CASE pattern = "A%" -> text \in {"Ann"}
    [] pattern = "%" -> TRUE
    [] OTHER -> pattern = text

\* Table.compare
compare(value, operator, compareTo) ==
  CASE operator = "=" -> LooseEq(value, compareTo)
    [] operator = "!=" -> ~LooseEq(value, compareTo)
    [] operator = ">" -> LessThan(compareTo, value)
    [] operator = "<" -> LessThan(value, compareTo)
    [] operator = ">=" -> LessEq(compareTo, value)
    [] operator = "<=" -> LessEq(value, compareTo)
    [] operator = "LIKE" -> LikeMatch(compareTo.s, ToStr(value))
    [] OTHER -> FALSE


(***************************************************************************)
(* Records, schemas, collections.                                          *)
(*                                                                         *)
(* A record (row) is a function from AllCols to values; Absent marks a     *)
(* column the object has no property for.  A collection is                 *)
(* [schema, data, indexes, primaryKey]: schema the normalized column       *)
(* definitions in declaration order, data the record sequence, indexes a   *)
(* function from the indexed columns to their buckets (property key ->     *)
(* sequence of 0-based positions), primaryKey a column name or NoKey.      *)
(***************************************************************************)
AllCols == {"id", "name", "age", "at"}

Row(id, name, age, at) == [id |-> id, name |-> name, age |-> age, at |-> at]

EmptyRow == Row(Absent, Absent, Absent, Absent)

\* this.primaryKey = null; null used as a property name is "null".
NoKey == "null"

NoIndexes == [c \in {} |-> 0]

\* this.tables, this.indexes and the records are plain objects: under these
\* names object[name] is what Object.prototype holds, a truthy value that
\* is neither a Table, nor an index, nor a value of a column type.
ObjectPrototype ==
  {"constructor", "toString", "valueOf", "hasOwnProperty", "__proto__"}

\* record[column]
Get(record, column) ==
  IF column \in DOMAIN record /\ record[column] # Absent
  THEN record[column]
  ELSE IF column \in ObjectPrototype
  THEN [t |-> "function", n |-> 0, s |-> ""]
  ELSE Undef

\* column in record: true of what the record inherits, too.
Has(record, column) ==
  \/ column \in DOMAIN record /\ record[column] # Absent
  \/ column \in ObjectPrototype

\* { ...a, ...b }
Spread(a, b) ==
  LET v(c) == IF b[c] # Absent THEN b[c] ELSE a[c]
  IN  Row(v("id"), v("name"), v("age"), v("at"))

\* { ...this.data[i] } for a 0-based position i; { ...undefined } is {}.
RowAt(data, i) == IF i + 1 \in 1..Len(data) THEN data[i + 1] ELSE EmptyRow

\* A column definition as createTable receives it (a missing flag is false,
\* a missing type is "", a missing defaultValue is Undef).
ColDef(name, type, required, primaryKey, unique, autoIncrement, defaultValue) ==
  [name |-> name, type |-> type, required |-> required,
   primaryKey |-> primaryKey, unique |-> unique,
   autoIncrement |-> autoIncrement, defaultValue |-> defaultValue]

\* Table.normalizeSchema
normalizeSchema(schema) ==
  [k \in 1..Len(schema) |->
     [name |-> schema[k].name,
      type |-> IF schema[k].type = "" THEN "string" ELSE schema[k].type,
      required |-> schema[k].required \/ schema[k].primaryKey,
      primaryKey |-> schema[k].primaryKey,
      unique |-> schema[k].unique \/ schema[k].primaryKey,
      autoIncrement |-> schema[k].autoIncrement,
      defaultValue |-> schema[k].defaultValue]]

\* Table.findPrimaryKey
findPrimaryKey(schema) ==
  LET pks == {k \in 1..Len(schema) : schema[k].primaryKey}
  IN  IF pks = {} THEN NoKey
      ELSE schema[CHOOSE k \in pks : \A j \in pks : k <= j].name

SchemaCols(schema) == {schema[k].name : k \in 1..Len(schema)}

\* Table.validateType
validateType(value, type) ==
  IF value.t \in {"null", "undefined"} THEN TRUE
  ELSE CASE type = "string" -> value.t = "string"
         [] type = "number" -> value.t = "number" /\ ~IsNaN(value)
         [] type = "boolean" -> value.t = "boolean"
         [] type = "date" ->
              \/ value.t = "date"
              \/ value.t = "string" /\ IsDateText(value.s)
         [] type = "object" -> value.t \in {"object", "date"}
         [] type = "array" -> FALSE
         [] OTHER -> TRUE

\* Table.coerceValue
coerceValue(value, type) ==
  IF value.t \in {"null", "undefined"} THEN value
  ELSE CASE type = "string" -> Str(ToStr(value))
         [] type = "number" ->
              IF IsNaN(ToNumber(value)) THEN Null ELSE ToNumber(value)
         [] type = "boolean" -> Bool(Truthy(value))
         [] type = "date" ->
              IF value.t = "date" THEN value
              ELSE IF value.t = "string" /\ IsDateText(value.s)
                   THEN DateV(DateIso(value.s))
                   ELSE DateV("Invalid Date")
         [] OTHER -> value

(***************************************************************************)
(* Table.find.  A conditions object is a sequence of entries               *)
(* [col, isOps, ops, lit]: col the key, and either a literal lit           *)
(* (isOps = FALSE) or an operator mapping ops, a sequence of [op, val].    *)
(***************************************************************************)
CondLit(col, lit) == [col |-> col, isOps |-> FALSE, ops |-> <<>>, lit |-> lit]

CondOp(col, op, val) ==
  [col |-> col, isOps |-> TRUE, ops |-> <<[op |-> op, val |-> val]>>,
   lit |-> OpObject]

\* Whether one record passes the full scan's test.
ScanMatch(record, conditions) ==
  \A k \in 1..Len(conditions) :
    LET condition == conditions[k]
        key == condition.col
    IN  IF condition.isOps \/ condition.lit.t \in {"null", "date", "object"}
        THEN \A j \in 1..Len(condition.ops) :
               compare(Get(record, key), condition.ops[j].op,
                       condition.ops[j].val)
        ELSE StrictEq(Get(record, key), condition.lit)

\* The full scan of Table.find (lines 176-193).
FullScan(T, conditions) ==
  SelectSeq(T.data, LAMBDA record : ScanMatch(record, conditions))

\* Whether this.indexes[column] is truthy, the test of the constructor
\* (line 17), of validateRecord (line 115) and of find (line 166).
HasIndex(indexes, column) ==
  column \in DOMAIN indexes \/ column \in ObjectPrototype

\* The indexed search of Table.find (lines 164-174): the condition's value,
\* whatever it is, is the property key looked up in the column's index.
IndexLookup(T, conditions) ==
  LET col == conditions[1].col
      key == ToStr(conditions[1].lit)
  IN  IF col \in DOMAIN T.indexes /\ key \in DOMAIN T.indexes[col]
      THEN [k \in 1..Len(T.indexes[col][key]) |->
              RowAt(T.data, T.indexes[col][key][k])]
      ELSE <<>>

UsesIndex(T, conditions) ==
  Len(conditions) = 1 /\ HasIndex(T.indexes, conditions[1].col)

\* Table.find
find(T, conditions) ==
  IF Len(conditions) = 0 THEN T.data
  ELSE IF UsesIndex(T, conditions) THEN IndexLookup(T, conditions)
  ELSE FullScan(T, conditions)

\* Table.findOne: the first match, or null (found = FALSE).
findOne(T, conditions) ==
  LET First(results) ==
        IF Len(results) > 0
        THEN [found |-> TRUE, row |-> results[1]]
        ELSE [found |-> FALSE, row |-> EmptyRow]
  IN  First(find(T, conditions))

(***************************************************************************)
(* Table.validateRecord.  An error message is [msg, arg]: the text with    *)
(* a hole and what fills it.                                               *)
(***************************************************************************)
Msg(text, arg) == [msg |-> text, arg |-> arg]

\* The unique check of validateRecord (lines 114-120) for one column.
UniqueViolated(T, record, def, coerced) ==
  /\ def.unique
  /\ HasIndex(T.indexes, def.name)
  /\ LET Other(existing) ==
           /\ existing.found
           /\ ~StrictEq(Get(existing.row, T.primaryKey),
                        Get(record, T.primaryKey))
     IN  Other(findOne(T, <<CondLit(def.name, coerced)>>))

RECURSIVE validateColumns(_, _, _, _, _)
validateColumns(T, record, k, errors, result) ==
  IF k > Len(T.schema) THEN [errors |-> errors, result |-> result]
  ELSE
    LET def == T.schema[k]
        column == def.name
        value == Get(record, column)
        hasValue == Has(record, column)
        coerced == coerceValue(value, def.type)
    IN  CASE def.autoIncrement /\ ~hasValue ->
               validateColumns(T, record, k + 1, errors, result)
          [] def.required /\ ~hasValue /\ def.defaultValue = Undef ->
               validateColumns(T, record, k + 1,
                 Append(errors, Msg("Required column '%' is missing", column)),
                 result)
          [] ~hasValue /\ def.defaultValue # Undef ->
               validateColumns(T, record, k + 1, errors,
                 [result EXCEPT ![column] =
                    coerceValue(def.defaultValue, def.type)])
          [] ~hasValue ->
               validateColumns(T, record, k + 1, errors, result)
          [] ~validateType(value, def.type) ->
               validateColumns(T, record, k + 1,
                 Append(errors, Msg("Invalid type for '%'", column)), result)
          [] OTHER ->
               validateColumns(T, record, k + 1,
                 IF UniqueViolated(T, record, def, coerced)
                 THEN Append(errors,
                        Msg("Duplicate value for unique column '%'", column))
                 ELSE errors,
                 [result EXCEPT ![column] = coerced])

\* No validation: had validateRecord returned the record as it is.
acceptRecord(T, record) == [errors |-> <<>>, result |-> record]

\* A validateRecord that applies no default: what the record does not
\* supply is not in the result.
validateNoDefaults(T, record) ==
  LET Supplied(v) ==
        [errors |-> v.errors,
         result |-> [c \in DOMAIN v.result |->
                       IF Has(record, c) THEN v.result[c] ELSE Absent]]
  IN  Supplied(validateColumns(T, record, 1, <<>>, EmptyRow))

\* Table.validateRecord: errors is empty when it returns result, and is
\* the thrown message (joined with ', ') otherwise.
validateRecord(T, record) == validateColumns(T, record, 1, <<>>, EmptyRow)


(***************************************************************************)
(* Index maintenance.                                                      *)
(***************************************************************************)
NoBuckets == [key \in {} |-> <<>>]

\* f with f[k] set to v, k added to its domain when it is not there.
Put(f, k, v) == [x \in DOMAIN f \cup {k} |-> IF x = k THEN v ELSE f[x]]

\* 0, 1, ..., n - 1
Positions(n) == [i \in 1..n |-> i - 1]

\* Table.rebuildIndex: the buckets of column, recomputed from data.
rebuildIndex(data, column) ==
  LET keys == {ToStr(Get(data[i], column)) :
                 i \in {j \in 1..Len(data) : Get(data[j], column) # Undef}}
  IN  [key \in keys |->
         SelectSeq(Positions(Len(data)),
                   LAMBDA p : /\ Get(data[p + 1], column) # Undef
                              /\ ToStr(Get(data[p + 1], column)) = key)]

\* Table.insert, lines 146-152, for one index: the new record's position
\* is appended to the bucket of its value.
IndexAdd(buckets, value, position) ==
  IF value = Undef THEN buckets
  ELSE IF ToStr(value) \in DOMAIN buckets
       THEN [buckets EXCEPT ![ToStr(value)] = Append(@, position)]
       ELSE Put(buckets, ToStr(value), <<position>>)

\* Table.update, lines 234-241, and Table.delete, lines 296-301, for one
\* index: every target position is filtered out of the bucket of the value
\* its record holds.
IndexStrip(buckets, data, column, indices) ==
  [key \in DOMAIN buckets |->
     SelectSeq(buckets[key],
               LAMBDA i : ~\E k \in 1..Len(indices) :
                             /\ indices[k] = i
                             /\ Get(data[i + 1], column) # Undef
                             /\ ToStr(Get(data[i + 1], column)) = key)]

\* Table.update, lines 262-269, for one index.
RECURSIVE IndexAddAll(_, _, _, _, _)
IndexAddAll(buckets, data, column, indices, k) ==
  IF k > Len(indices) THEN buckets
  ELSE IndexAddAll(
         IndexAdd(buckets, Get(data[indices[k] + 1], column), indices[k]),
         data, column, indices, k + 1)

(***************************************************************************)
(* Table.insert, Table.update, Table.delete, Table.createIndex.  Each      *)
(* returns an outcome: threw and error, the collection T as the call       *)
(* leaves it in memory, what it returns (row, count), and saved: whether   *)
(* it reached save() and saveIndexes().                                    *)
(***************************************************************************)
Outcome(threw, error, T, row, count, saved) ==
  [threw |-> threw, error |-> error, T |-> T, row |-> row, count |-> count,
   saved |-> saved]

\* Math.max(a, b)
MathMax(a, b) ==
  LET x == ToNumber(a)
      y == ToNumber(b)
  IN  IF IsNaN(x) \/ IsNaN(y) THEN NaN
      ELSE IF x.n >= y.n THEN x ELSE y

\* this.data.reduce((max, row) => Math.max(max, row[column] || 0), 0)
RECURSIVE ColumnMax(_, _, _, _)
ColumnMax(data, column, k, max) ==
  IF k > Len(data) THEN max
  ELSE ColumnMax(data, column, k + 1,
         MathMax(max, IF Truthy(Get(data[k], column))
                      THEN Get(data[k], column) ELSE Num(0)))

\* max + 1
PlusOne(v) == IF IsNaN(v) THEN NaN ELSE Num(v.n + 1)

\* One more than the number of records: had insert counted them.
CountPlusOne(data, column) == Num(Len(data) + 1)

\* The value insert assigns to an auto-increment column (lines 136-138).
NextAuto(data, column) == PlusOne(ColumnMax(data, column, 1, Num(0)))

\* Table.insert, lines 134-140
autoIncrement(T, validated) ==
  LET v(c) == IF /\ \E k \in 1..Len(T.schema) :
                      T.schema[k].name = c /\ T.schema[k].autoIncrement
                 /\ validated[c] = Absent
              THEN NextAuto(T.data, c)
              ELSE validated[c]
  IN  Row(v("id"), v("name"), v("age"), v("at"))

\* The record pushed before it is validated: had insert validated last.
pushThenValidate(T, record) ==
  LET Checked(v) ==
        Outcome(Len(v.errors) > 0, v.errors,
                [T EXCEPT !.data = Append(T.data, record)], record, 0, FALSE)
  IN  Checked(validateRecord(T, record))

\* Table.insert
insert(T, record) ==
  LET index == Len(T.data)
      Push(validated) ==
        Outcome(FALSE, <<>>,
          [T EXCEPT !.data = Append(T.data, validated),
                    !.indexes = [col \in DOMAIN T.indexes |->
                       IndexAdd(T.indexes[col], Get(validated, col), index)]],
          validated, 0, TRUE)
      Checked(v) ==
        IF Len(v.errors) > 0
        THEN Outcome(TRUE, v.errors, T, EmptyRow, 0, FALSE)
        ELSE Push(autoIncrement(T, v.result))
  IN  Checked(validateRecord(T, record))

\* this.data.findIndex(r => ...) of update and delete: the first position
\* whose primary key is that of record; -1 when there is none, and always
\* -1 without a primary key, record being a copy.
findIndex(T, record) ==
  LET hits == {i \in 1..Len(T.data) :
                 /\ T.primaryKey # NoKey
                 /\ StrictEq(Get(T.data[i], T.primaryKey),
                             Get(record, T.primaryKey))}
  IN  IF hits = {} THEN -1
      ELSE (CHOOSE i \in hits : \A j \in hits : i <= j) - 1

\* The positions update and delete resolve for the records find returned.
RECURSIVE resolve(_, _, _)
resolve(T, found, k) ==
  IF k > Len(found) THEN <<>>
  ELSE LET idx == findIndex(T, found[k])
       IN  IF idx # -1 THEN <<idx>> \o resolve(T, found, k + 1)
           ELSE resolve(T, found, k + 1)

\* An update loop that assigns this.data[idx] before the primary key check.
RECURSIVE writeThenCheck(_, _, _, _)
writeThenCheck(T, indices, updates, k) ==
  IF k > Len(indices) THEN Outcome(FALSE, <<>>, T, EmptyRow, k - 1, FALSE)
  ELSE
    LET idx == indices[k]
        Checked(v) ==
          IF Len(v.errors) > 0
          THEN Outcome(TRUE, v.errors, T, EmptyRow, k - 1, FALSE)
          ELSE IF /\ T.primaryKey # NoKey
                  /\ Has(updates, T.primaryKey)
                  /\ findOne(T, <<CondLit(T.primaryKey,
                                          Get(v.result, T.primaryKey))>>).found
               THEN Outcome(TRUE, <<Msg("Duplicate primary key value", "")>>,
                            [T EXCEPT !.data[idx + 1] = v.result],
                            EmptyRow, k - 1, FALSE)
               ELSE writeThenCheck([T EXCEPT !.data[idx + 1] = v.result],
                                   indices, updates, k + 1)
    IN  Checked(validateRecord(T, Spread(T.data[idx + 1], updates)))

\* Table.update, lines 245-259: the rows are rewritten one after the other;
\* a throw leaves the rows written before it in place.
RECURSIVE updateRows(_, _, _, _)
updateRows(T, indices, updates, k) ==
  IF k > Len(indices) THEN Outcome(FALSE, <<>>, T, EmptyRow, k - 1, FALSE)
  ELSE
    LET idx == indices[k]
        Checked(v) ==
          IF Len(v.errors) > 0
          THEN Outcome(TRUE, v.errors, T, EmptyRow, k - 1, FALSE)
          ELSE IF /\ T.primaryKey # NoKey
                  /\ Has(updates, T.primaryKey)
                  /\ findOne(T, <<CondLit(T.primaryKey,
                                          Get(v.result, T.primaryKey))>>).found
               THEN Outcome(TRUE, <<Msg("Duplicate primary key value", "")>>,
                            T, EmptyRow, k - 1, FALSE)
               ELSE updateRows([T EXCEPT !.data[idx + 1] = v.result],
                               indices, updates, k + 1)
    IN  Checked(validateRecord(T, Spread(T.data[idx + 1], updates)))

\* Table.update
update(T, conditions, updates) ==
  LET Stripped(indices) ==
        [T EXCEPT !.indexes = [col \in DOMAIN T.indexes |->
           IndexStrip(T.indexes[col], T.data, col, indices)]]
      Indexed(indices, written) ==
        IF written.threw THEN written
        ELSE Outcome(FALSE, <<>>,
               [written.T EXCEPT !.indexes = [col \in DOMAIN T.indexes |->
                  IndexAddAll(written.T.indexes[col], written.T.data, col,
                              indices, 1)]],
               EmptyRow, Len(indices), Len(indices) > 0)
      Written(indices) ==
        Indexed(indices, updateRows(Stripped(indices), indices, updates, 1))
  IN  Written(resolve(T, find(T, conditions), 1))

\* indices.sort((a, b) => b - a)
RECURSIVE sortDescending(_)
sortDescending(indices) ==
  IF Len(indices) = 0 THEN <<>>
  ELSE LET m == CHOOSE i \in 1..Len(indices) :
                  \A j \in 1..Len(indices) : indices[i] >= indices[j]
       IN  <<indices[m]>> \o
           sortDescending([i \in 1..(Len(indices) - 1) |->
                             IF i < m THEN indices[i] ELSE indices[i + 1]])

\* this.data.splice(idx, 1)
splice(data, idx) ==
  IF idx + 1 \in 1..Len(data)
  THEN [i \in 1..(Len(data) - 1) |-> IF i <= idx THEN data[i] ELSE data[i + 1]]
  ELSE data

\* Table.delete, lines 308-310
RECURSIVE spliceAll(_, _, _)
spliceAll(data, indices, k) ==
  IF k > Len(indices) THEN data
  ELSE spliceAll(splice(data, indices[k]), indices, k + 1)

\* Table.delete, lines 295-305: each index is stripped of the targets and
\* then rebuilt from this.data, which still holds the records to delete.
deleteIndexes(T, indices) ==
  [col \in DOMAIN T.indexes |-> rebuildIndex(T.data, col)]

\* Table.delete
delete(T, conditions) ==
  LET Spliced(indices) ==
        Outcome(FALSE, <<>>,
          [T EXCEPT !.indexes = deleteIndexes(T, indices),
                    !.data = spliceAll(T.data, indices, 1)],
          EmptyRow, Len(indices), Len(indices) > 0)
  IN  Spliced(sortDescending(resolve(T, find(T, conditions), 1)))

\* Table.createIndex
createIndex(T, column) ==
  IF column \notin SchemaCols(T.schema)
  THEN Outcome(TRUE, <<Msg("Column '%' does not exist", column)>>, T,
               EmptyRow, 0, FALSE)
  ELSE Outcome(FALSE, <<>>,
         [T EXCEPT !.indexes = Put(T.indexes, column,
                                   rebuildIndex(T.data, column))],
         EmptyRow, 0, TRUE)


(***************************************************************************)
(* Persistence.  The directory holds, per collection name, a schema file,  *)
(* a data file and an index file: disk = [schema, data, index], each a     *)
(* function from the names whose file exists to the file's content.        *)
(***************************************************************************)
NoFiles == [n \in {} |-> 0]

EmptyDisk == [schema |-> NoFiles, data |-> NoFiles, index |-> NoFiles]

Remove(f, k) == [x \in DOMAIN f \ {k} |-> f[x]]

\* What JSON.stringify followed by JSON.parse makes of a value: a Date
\* comes back as its ISO text, NaN as null.
JsonValue(v) ==
  CASE v.t = "date" -> Str(v.s)
    [] IsNaN(v) -> Null
    [] OTHER -> v

\* ... and of a record: a property whose value is undefined is left out.
JsonRow(row) ==
  LET v(c) == IF row[c] = Undef THEN Absent ELSE JsonValue(row[c])
  IN  Row(v("id"), v("name"), v("age"), v("at"))

JsonData(data) == [i \in 1..Len(data) |-> JsonRow(data[i])]

JsonSchema(schema) ==
  [k \in 1..Len(schema) |->
     [schema[k] EXCEPT !.defaultValue = IF @ = Undef THEN @ ELSE JsonValue(@)]]

\* Table.save
save(d, name, T) == [d EXCEPT !.data = Put(@, name, JsonData(T.data))]

\* Table.saveIndexes
saveIndexes(d, name, T) == [d EXCEPT !.index = Put(@, name, T.indexes)]

\* Table.load
load(d, name) == IF name \in DOMAIN d.data THEN d.data[name] ELSE <<>>

\* Table.loadIndexes
loadIndexes(d, name) ==
  IF name \in DOMAIN d.index THEN d.index[name] ELSE NoIndexes

\* Table.constructor: the collection, and the directory as it leaves it
\* (createIndex on the primary key writes the index file).
NewTable(name, schema, d) ==
  LET Indexed(T) == [table |-> T, disk |-> saveIndexes(d, name, T)]
      Loaded(loaded) ==
        IF /\ loaded.primaryKey # NoKey
           /\ ~HasIndex(loaded.indexes, loaded.primaryKey)
        THEN Indexed(createIndex(loaded, loaded.primaryKey).T)
        ELSE [table |-> loaded, disk |-> d]
      Normalized(normalized) ==
        Loaded([schema |-> normalized, data |-> load(d, name),
                indexes |-> loadIndexes(d, name),
                primaryKey |-> findPrimaryKey(normalized)])
  IN  Normalized(normalizeSchema(schema))

\* The names Database.loadTables finds: name.json is a file of the
\* directory and name_schema.json exists.  (Of the three files of a
\* collection only the data file yields a name with a schema file; the
\* model's names do not end in _index or _schema.)
Loadable(d) == DOMAIN d.data \cap DOMAIN d.schema

\* Database.loadTables, for the collection name: the directory after its
\* construction.
RECURSIVE loadDisk(_, _)
loadDisk(d, names) ==
  IF names = {} THEN d
  ELSE LET name == CHOOSE n \in names : TRUE
       IN  loadDisk(NewTable(name, d.schema[name], d).disk, names \ {name})

\* new Database(name): the catalog loadTables builds and the directory
\* it leaves.
loadTables(d) ==
  [tables |-> [name \in Loadable(d) |->
                 NewTable(name, d.schema[name], d).table],
   disk |-> loadDisk(d, Loadable(d))]


(***************************************************************************)
(* The state.                                                              *)
(*   tables  Database.tables: the catalog, name -> collection              *)
(*   disk    the database directory                                        *)
(*   pc      "idle"; "done" when an operation has returned or thrown and   *)
(*           the caller holds its result; "query" while parseAndExecute    *)
(*           runs                                                          *)
(*   call    the last operation called and its arguments                   *)
(*   result  what that operation returned or threw                         *)
(***************************************************************************)
VARIABLES tables, disk, pc, call, result

vars == <<tables, disk, pc, call, result>>

Call(op, name, record, conditions, updates, column, schema, query) ==
  [op |-> op, name |-> name, record |-> record, conditions |-> conditions,
   updates |-> updates, column |-> column, schema |-> schema, query |-> query]

NoCall == Call("none", "", EmptyRow, <<>>, EmptyRow, "", <<>>, <<>>)

NoMsg == Msg("", "")

\* kind is "return" or "throw" for a call of Table or Database, "envelope"
\* for what parseAndExecute returns.
Result(kind, success, message, error, rows, count) ==
  [kind |-> kind, success |-> success, message |-> message, error |-> error,
   rows |-> rows, count |-> count]

NoResult == Result("none", FALSE, NoMsg, <<>>, <<>>, 0)

Returned(rows, count) == Result("return", TRUE, NoMsg, <<>>, rows, count)

Threw(error) == Result("throw", FALSE, NoMsg, error, <<>>, 0)

\* Of a Table call's outcome, what the caller sees.
Seen(o, rows) == IF o.threw THEN Threw(o.error) ELSE Returned(rows, o.count)

\* The directory after a Table call with outcome o on collection name.
Saved(d, name, o) ==
  IF o.saved THEN saveIndexes(save(d, name, o.T), name, o.T) ELSE d

(***************************************************************************)
(* Database.createTable, Database.dropTable, Database.getTable.  Each      *)
(* takes and returns the database db = [tables, disk].                     *)
(***************************************************************************)
DbOutcome(threw, error, tbls, d) ==
  [threw |-> threw, error |-> error, tables |-> tbls, disk |-> d]

\* Whether this.tables[tableName] is truthy, the test of createTable (line
\* 39), getTable (line 53) and dropTable (line 60).
Listed(db, tableName) ==
  tableName \in DOMAIN db.tables \/ tableName \in ObjectPrototype

\* A createTable that writes the schema file before it looks the name up.
createOverwriting(db, tableName, schema) ==
  LET Written ==
        [db.disk EXCEPT !.schema = Put(@, tableName, JsonSchema(schema))]
      Made(made) ==
        DbOutcome(FALSE, <<>>, Put(db.tables, tableName, made.table),
                  made.disk)
  IN  IF Listed(db, tableName)
      THEN DbOutcome(TRUE, <<Msg("Table '%' already exists", tableName)>>,
                     db.tables, Written)
      ELSE Made(NewTable(tableName, schema, Written))

\* Database.createTable
createTable(db, tableName, schema) ==
  IF Listed(db, tableName)
  THEN DbOutcome(TRUE, <<Msg("Table '%' already exists", tableName)>>,
                 db.tables, db.disk)
  ELSE LET Made(made) ==
             DbOutcome(FALSE, <<>>, Put(db.tables, tableName, made.table),
                       made.disk)
       IN  Made(NewTable(tableName, schema,
                  [db.disk EXCEPT
                     !.schema = Put(@, tableName, JsonSchema(schema))]))

\* A dropTable whose Table.drop leaves the data and index files in place.
dropKeepingFiles(db, tableName) ==
  IF ~Listed(db, tableName)
  THEN DbOutcome(TRUE, <<Msg("Table '%' does not exist", tableName)>>,
                 db.tables, db.disk)
  ELSE IF tableName \notin DOMAIN db.tables
  THEN DbOutcome(TRUE, <<Msg("% is not a function",
                             "this.tables[tableName].drop")>>,
                 db.tables, db.disk)
  ELSE DbOutcome(FALSE, <<>>, Remove(db.tables, tableName),
                 [db.disk EXCEPT !.schema = Remove(@, tableName)])

\* Database.dropTable with Table.drop
dropTable(db, tableName) ==
  IF ~Listed(db, tableName)
  THEN DbOutcome(TRUE, <<Msg("Table '%' does not exist", tableName)>>,
                 db.tables, db.disk)
  ELSE IF tableName \notin DOMAIN db.tables
  THEN DbOutcome(TRUE, <<Msg("% is not a function",
                             "this.tables[tableName].drop")>>,
                 db.tables, db.disk)
  ELSE DbOutcome(FALSE, <<>>, Remove(db.tables, tableName),
                 [schema |-> Remove(db.disk.schema, tableName),
                  data |-> Remove(db.disk.data, tableName),
                  index |-> Remove(db.disk.index, tableName)])

\* A Table call with outcome o on collection name, applied to db.
Applied(db, name, o) ==
  DbOutcome(o.threw, o.error, [db.tables EXCEPT ![name] = o.T],
            Saved(db.disk, name, o))

\* Table.createIndex writes the index file only.
AppliedIndex(db, name, o) ==
  DbOutcome(o.threw, o.error, [db.tables EXCEPT ![name] = o.T],
            IF o.saved THEN saveIndexes(db.disk, name, o.T) ELSE db.disk)


(***************************************************************************)
(* SQLParser.  A query is the sequence of tokens tokenize makes of it;     *)
(* tokens[i] is Tok(tokens, i), NoToken past the end (undefined).          *)
(***************************************************************************)
NoToken == "undefined"

Tok(tokens, i) == IF i + 1 \in 1..Len(tokens) THEN tokens[i + 1] ELSE NoToken

\* token.toUpperCase(), for the tokens of the model that change under it
\* and are compared with a keyword.
UpperText ==
  << <<"select", "SELECT">>, <<"from", "FROM">>, <<"where", "WHERE">>,
     <<"insert", "INSERT">>, <<"into", "INTO">>, <<"values", "VALUES">>,
     <<"delete", "DELETE">>, <<"update", "UPDATE">>, <<"set", "SET">>,
     <<"limit", "LIMIT">>, <<"primary", "PRIMARY">>, <<"desc", "DESC">>,
     <<"true", "TRUE">>, <<"True", "TRUE">>, <<"false", "FALSE">> >>

Upper(token) ==
  IF \E k \in 1..Len(UpperText) : UpperText[k][1] = token
  THEN UpperText[CHOOSE k \in 1..Len(UpperText) : UpperText[k][1] = token][2]
  ELSE token

\* dataType.toLowerCase()
LowerText ==
  << <<"NUMBER", "number">>, <<"STRING", "string">>, <<"INT", "int">>,
     <<"VARCHAR", "varchar">>, <<"DATE", "date">> >>

Lower(token) ==
  IF \E k \in 1..Len(LowerText) : LowerText[k][1] = token
  THEN LowerText[CHOOSE k \in 1..Len(LowerText) : LowerText[k][1] = token][2]
  ELSE token

\* The single-quoted tokens of the model and value.slice(1, -1) of each.
QuotedText ==
  << <<"'Ann'", "Ann">>, <<"'Bo'", "Bo">>, <<"'Cy'", "Cy">>,
     <<"'1'", "1">>, <<"'2020-01-01'", "2020-01-01">> >>

IsQuoted(token) == \E k \in 1..Len(QuotedText) : QuotedText[k][1] = token

Unquote(token) ==
  QuotedText[CHOOSE k \in 1..Len(QuotedText) : QuotedText[k][1] = token][2]

\* The literal coercion of parseInsert (lines 229-240), parseCondition
\* (lines 348-359) and parseUpdate (lines 382-392), written three times in
\* the source with the same text.
Literal(value) ==
  IF IsQuoted(value) THEN Str(Unquote(value))
  ELSE IF IsNumericText(value) THEN Num(TextNum(value))
  ELSE IF value \in {"TRUE", "true"} THEN Bool(TRUE)
  ELSE IF value \in {"FALSE", "false"} THEN Bool(FALSE)
  ELSE IF value = "NULL" THEN Null
  ELSE Str(value)

\* parseInt(token)
parseInt(tokens, i) ==
  IF i < Len(tokens) /\ IsNumericText(Tok(tokens, i))
  THEN Num(TextNum(Tok(tokens, i)))
  ELSE NaN

\* What a parse method does: it runs forever (diverges), throws (threw,
\* error) or returns an envelope (success, message, rows); tables and disk
\* are the database as it leaves it.
QOut(diverges, threw, message, error, rows, tbls, d) ==
  [diverges |-> diverges, threw |-> threw, message |-> message,
   error |-> error, rows |-> rows, tables |-> tbls, disk |-> d]

QThrow(text, arg, db) ==
  QOut(FALSE, TRUE, NoMsg, <<Msg(text, arg)>>, <<>>, db.tables, db.disk)

QError(error, after) ==
  QOut(FALSE, TRUE, NoMsg, error, <<>>, after.tables, after.disk)

QOk(message, rows, after) ==
  QOut(FALSE, FALSE, message, <<>>, rows, after.tables, after.disk)

\* value.startsWith of an undefined value, and the like.
TypeError == "Cannot read properties of undefined"

\* parseCreate, lines 166-187: the constraints of one column, from token i.
RECURSIVE parseConstraints(_, _, _)
parseConstraints(tokens, i, columnDef) ==
  IF ~(i < Len(tokens) /\ Tok(tokens, i) # "," /\ Tok(tokens, i) # ")")
  THEN [i |-> i, columnDef |-> columnDef]
  ELSE
    LET constraint == Upper(Tok(tokens, i))
        j == i + 1
    IN  CASE constraint = "PRIMARY" ->
               parseConstraints(tokens,
                 IF Tok(tokens, j) = "KEY" THEN j + 1 ELSE j,
                 [columnDef EXCEPT !.primaryKey = TRUE])
          [] constraint = "UNIQUE" ->
               parseConstraints(tokens, j, [columnDef EXCEPT !.unique = TRUE])
          [] constraint = "AUTO_INCREMENT" ->
               parseConstraints(tokens, j,
                 [columnDef EXCEPT !.autoIncrement = TRUE])
          [] constraint = "NOT" ->
               parseConstraints(tokens,
                 IF Tok(tokens, j) = "NULL" THEN j + 1 ELSE j,
                 [columnDef EXCEPT !.required = TRUE])
          [] constraint = "DEFAULT" ->
               parseConstraints(tokens, j + 1,
                 [columnDef EXCEPT !.defaultValue =
                    IF j < Len(tokens) THEN Str(Tok(tokens, j)) ELSE Undef])
          [] OTHER -> parseConstraints(tokens, j, columnDef)

\* schema[columnName] = columnDef: a column named again keeps its place.
SetColumn(schema, columnDef) ==
  IF \E k \in 1..Len(schema) : schema[k].name = columnDef.name
  THEN [k \in 1..Len(schema) |->
          IF schema[k].name = columnDef.name THEN columnDef ELSE schema[k]]
  ELSE Append(schema, columnDef)

\* parseCreate, lines 158-191: the column list, from token i.
RECURSIVE parseColumns(_, _, _)
parseColumns(tokens, i, schema) ==
  IF ~(i < Len(tokens) /\ Tok(tokens, i) # ")")
  THEN [threw |-> FALSE, schema |-> schema]
  ELSE IF ~(i + 1 < Len(tokens))
       THEN [threw |-> TRUE, schema |-> schema]
       ELSE LET c == parseConstraints(tokens, i + 2,
                       ColDef(Tok(tokens, i), Lower(Tok(tokens, i + 1)),
                              FALSE, FALSE, FALSE, FALSE, Undef))
            IN  parseColumns(tokens,
                  IF Tok(tokens, c.i) = "," THEN c.i + 1 ELSE c.i,
                  SetColumn(schema, c.columnDef))

\* SQLParser.parseCreate
parseCreate(tokens, db) ==
  IF Upper(Tok(tokens, 1)) # "TABLE"
  THEN QThrow("Expected TABLE after CREATE", "", db)
  ELSE LET tableName == Tok(tokens, 2)
           Made(made) ==
             IF made.threw THEN QError(made.error, made)
             ELSE QOk(Msg("Table % created", tableName), <<>>, made)
           Parsed(parsed) ==
             IF parsed.threw THEN QThrow(TypeError, "toLowerCase", db)
             ELSE Made(createTable(db, tableName, parsed.schema))
       IN  Parsed(parseColumns(tokens, 4, <<>>))

\* parseInsert, lines 208-215: the column list, from token i.  Past the
\* end of the tokens no ')' is ever met: the loop pushes undefined for ever.
RECURSIVE insertColumns(_, _, _)
insertColumns(tokens, i, columns) ==
  IF Tok(tokens, i) = ")" /\ i < Len(tokens)
  THEN [diverges |-> FALSE, i |-> i + 1, columns |-> columns]
  ELSE IF i >= Len(tokens)
       THEN [diverges |-> TRUE, i |-> i, columns |-> columns]
       ELSE insertColumns(tokens,
              IF Tok(tokens, i + 1) = "," THEN i + 2 ELSE i + 1,
              Append(columns, Tok(tokens, i)))

\* parseInsert, lines 225-244: the value list, from token i.  Past the end
\* value.startsWith throws.
RECURSIVE insertValues(_, _, _)
insertValues(tokens, i, values) ==
  IF Tok(tokens, i) = ")" /\ i < Len(tokens)
  THEN [threw |-> FALSE, values |-> values]
  ELSE IF i >= Len(tokens)
       THEN [threw |-> TRUE, values |-> values]
       ELSE insertValues(tokens,
              IF Tok(tokens, i + 1) = "," THEN i + 2 ELSE i + 1,
              Append(values, Literal(Tok(tokens, i))))

\* parseInsert, lines 246-249: record[columns[j]] = values[j]
insertRecord(columns, values) ==
  LET at(c) == {j \in 1..Len(columns) : columns[j] = c}
      last(c) == CHOOSE j \in at(c) : \A k \in at(c) : k <= j
      value(c) == IF at(c) = {} THEN Absent
                  ELSE IF last(c) <= Len(values) THEN values[last(c)]
                  ELSE Undef
  IN  Row(value("id"), value("name"), value("age"), value("at"))

\* SQLParser.parseInsert
parseInsert(tokens, db) ==
  IF Upper(Tok(tokens, 1)) # "INTO"
  THEN QThrow("Expected INTO after INSERT", "", db)
  ELSE IF ~Listed(db, Tok(tokens, 2))
  THEN QThrow("Table '%' does not exist", Tok(tokens, 2), db)
  ELSE
    LET name == Tok(tokens, 2)
        table == db.tables[name]
        Id(row) == IF Truthy(Get(row, "id")) THEN Get(row, "id")
                   ELSE Get(row, table.primaryKey)
        Inserted(o) ==
          IF o.threw THEN QError(o.error, Applied(db, name, o))
          ELSE QOk(Msg("Record inserted with ID: %", ToStr(Id(o.row))),
                   <<o.row>>, Applied(db, name, o))
        Values(cols, vals) ==
          IF vals.threw THEN QThrow(TypeError, "startsWith", db)
          ELSE IF name \notin DOMAIN db.tables
          THEN QThrow("% is not a function", "table.insert", db)
          ELSE Inserted(insert(table, insertRecord(cols.columns, vals.values)))
        Columns(cols) ==
          IF cols.diverges
          THEN QOut(TRUE, FALSE, NoMsg, <<>>, <<>>, db.tables, db.disk)
          ELSE IF ~(cols.i < Len(tokens) /\ Upper(Tok(tokens, cols.i)) = "VALUES")
          THEN QThrow("Expected VALUES", "", db)
          ELSE IF ~(cols.i + 1 < Len(tokens) /\ Tok(tokens, cols.i + 1) = "(")
          THEN QThrow("Expected ( after VALUES", "", db)
          ELSE Values(cols, insertValues(tokens, cols.i + 2, <<>>))
    IN  Columns(IF Tok(tokens, 3) = "(" /\ 3 < Len(tokens)
                THEN insertColumns(tokens, 4, <<>>)
                ELSE [diverges |-> FALSE, i |-> 3, columns |-> <<>>])

\* SQLParser.parseCondition, from token start: it throws when the third
\* token is missing, and returns the conditions object otherwise.
parseCondition(tokens, start) ==
  IF ~(start + 2 < Len(tokens))
  THEN [threw |-> TRUE, conditions |-> <<>>]
  ELSE [threw |-> FALSE,
        conditions |-> <<CondOp(Tok(tokens, start), Tok(tokens, start + 1),
                                Literal(Tok(tokens, start + 2)))>>]

\* parseSelect, lines 264-269: the selected columns, from token i.
RECURSIVE selectColumns(_, _, _)
selectColumns(tokens, i, columns) ==
  IF ~(i < Len(tokens) /\ Upper(Tok(tokens, i)) # "FROM")
  THEN [i |-> i, columns |-> columns]
  ELSE selectColumns(tokens, i + 1,
         IF Tok(tokens, i) # "," THEN Append(columns, Tok(tokens, i))
         ELSE columns)

\* parseSelect, lines 308-316
project(rows, columns) ==
  IF (\E k \in 1..Len(columns) : columns[k] = "*") \/ Len(columns) = 0
  THEN rows
  ELSE LET v(row, c) == IF \E k \in 1..Len(columns) : columns[k] = c
                        THEN row[c] ELSE Absent
       IN  [k \in 1..Len(rows) |->
              Row(v(rows[k], "id"), v(rows[k], "name"), v(rows[k], "age"),
                  v(rows[k], "at"))]

\* The comparator of parseSelect, lines 320-328: > 0, < 0 or 0.
orderCompare(a, b, orderBy, orderDir) ==
  LET aVal == Get(a, orderBy)
      bVal == Get(b, orderBy)
  IN  IF orderDir = "ASC"
      THEN IF LessThan(bVal, aVal) THEN 1
           ELSE IF LessThan(aVal, bVal) THEN -1 ELSE 0
      ELSE IF LessThan(aVal, bVal) THEN 1
           ELSE IF LessThan(bVal, aVal) THEN -1 ELSE 0

\* results.sort(comparator): a stable sort; row goes behind the last row
\* of sorted that does not compare greater than it.
sortInsert(sorted, row, orderBy, orderDir) ==
  LET keep == {j \in 1..Len(sorted) :
                 orderCompare(sorted[j], row, orderBy, orderDir) <= 0}
      at == IF keep = {} THEN 0 ELSE CHOOSE j \in keep : \A k \in keep : k <= j
  IN  SubSeq(sorted, 1, at) \o <<row>> \o SubSeq(sorted, at + 1, Len(sorted))

RECURSIVE sortRows(_, _, _, _)
sortRows(rows, k, orderBy, orderDir) ==
  IF k = 0 THEN <<>>
  ELSE sortInsert(sortRows(rows, k - 1, orderBy, orderDir), rows[k],
                  orderBy, orderDir)

\* parseSelect, lines 332-334: if (limit) results = results.slice(0, limit)
applyLimit(rows, limit) ==
  IF ~Truthy(limit) THEN rows
  ELSE IF limit.n >= 0
       THEN SubSeq(rows, 1, IF limit.n < Len(rows) THEN limit.n ELSE Len(rows))
       ELSE SubSeq(rows, 1, Len(rows) + limit.n)

\* SQLParser.parseSelect
parseSelect(tokens, db) ==
  LET NoWhere == [threw |-> FALSE, conditions |-> <<>>]
      Out(results) ==
        QOk(Msg("Found % record(s)", NumStr(Len(results))), results, db)
      Limit(sorted, i3) ==
        Out(applyLimit(sorted,
              IF i3 < Len(tokens) /\ Upper(Tok(tokens, i3)) = "LIMIT"
              THEN parseInt(tokens, i3 + 1) ELSE Null))
      Order(found, i2, hasOrder, hasDir) ==
        Limit(IF hasOrder /\ i2 + 2 < Len(tokens)
              THEN sortRows(found, Len(found), Tok(tokens, i2 + 2),
                            IF hasDir THEN Upper(Tok(tokens, i2 + 3))
                            ELSE "ASC")
              ELSE found,
              IF hasOrder THEN (IF hasDir THEN i2 + 4 ELSE i2 + 3) ELSE i2)
      HasOrder(i2) ==
        /\ i2 < Len(tokens)
        /\ Upper(Tok(tokens, i2)) = "ORDER"
        /\ i2 + 1 < Len(tokens)
        /\ Upper(Tok(tokens, i2 + 1)) = "BY"
      HasDir(i2) ==
        /\ HasOrder(i2)
        /\ i2 + 3 < Len(tokens)
        /\ Upper(Tok(tokens, i2 + 3)) \in {"ASC", "DESC"}
      Where(sel, name, cond, i2) ==
        IF cond.threw THEN QThrow(TypeError, "startsWith", db)
        ELSE IF name \notin DOMAIN db.tables
        THEN QThrow("% is not a function", "table.find", db)
        ELSE Order(project(find(db.tables[name], cond.conditions),
                           sel.columns),
                   i2, HasOrder(i2), HasDir(i2))
      From(sel, name, i1, hasWhere) ==
        IF ~Listed(db, name) \/ ~(sel.i + 1 < Len(tokens))
        THEN QThrow("Table '%' does not exist", name, db)
        ELSE Where(sel, name,
                   IF hasWhere THEN parseCondition(tokens, i1 + 1)
                   ELSE NoWhere,
                   IF hasWhere THEN i1 + 4 ELSE i1)
      Select(sel) ==
        IF ~(sel.i < Len(tokens))
        THEN QThrow("Expected FROM in SELECT", "", db)
        ELSE From(sel, Tok(tokens, sel.i + 1), sel.i + 2,
                  /\ sel.i + 2 < Len(tokens)
                  /\ Upper(Tok(tokens, sel.i + 2)) = "WHERE")
  IN  Select(selectColumns(tokens, 1, <<>>))

\* parseUpdate, lines 376-396: the SET clause, from token i.
RECURSIVE updateSet(_, _, _)
updateSet(tokens, i, updates) ==
  IF ~(i < Len(tokens) /\ Upper(Tok(tokens, i)) # "WHERE")
  THEN [threw |-> FALSE, error |-> NoMsg, i |-> i, updates |-> updates]
  ELSE IF ~(i + 1 < Len(tokens) /\ Tok(tokens, i + 1) = "=")
  THEN [threw |-> TRUE, error |-> Msg("Expected = after column name", ""),
        i |-> i, updates |-> updates]
  ELSE IF ~(i + 2 < Len(tokens))
  THEN [threw |-> TRUE, error |-> Msg(TypeError, "startsWith"),
        i |-> i, updates |-> updates]
  ELSE updateSet(tokens,
         IF Tok(tokens, i + 3) = "," /\ i + 3 < Len(tokens) THEN i + 4
         ELSE i + 3,
         IF Tok(tokens, i) \in AllCols
         THEN [updates EXCEPT ![Tok(tokens, i)] = Literal(Tok(tokens, i + 2))]
         ELSE updates)

\* SQLParser.parseUpdate
parseUpdate(tokens, db) ==
  IF ~Listed(db, Tok(tokens, 1)) \/ ~(1 < Len(tokens))
  THEN QThrow("Table '%' does not exist", Tok(tokens, 1), db)
  ELSE IF ~(2 < Len(tokens) /\ Upper(Tok(tokens, 2)) = "SET")
  THEN QThrow("Expected SET after table name", "", db)
  ELSE
    LET name == Tok(tokens, 1)
        NoWhere == [threw |-> FALSE, conditions |-> <<>>]
        Updated(o) ==
          IF o.threw THEN QError(o.error, Applied(db, name, o))
          ELSE QOk(Msg("Updated % record(s)", NumStr(o.count)), <<>>,
                   Applied(db, name, o))
        Where(set, cond) ==
          IF cond.threw THEN QThrow(TypeError, "startsWith", db)
          ELSE IF name \notin DOMAIN db.tables
          THEN QThrow("% is not a function", "table.update", db)
          ELSE Updated(update(db.tables[name], cond.conditions, set.updates))
        Set(set) ==
          IF set.threw THEN QError(<<set.error>>, db)
          ELSE Where(set,
                 IF set.i < Len(tokens) /\ Upper(Tok(tokens, set.i)) = "WHERE"
                 THEN parseCondition(tokens, set.i + 1)
                 ELSE NoWhere)
    IN  Set(updateSet(tokens, 3, EmptyRow))

\* A parseDelete that calls table.delete({}) before it parses the WHERE
\* clause.
deleteThenWhere(tokens, db) ==
  IF Upper(Tok(tokens, 1)) # "FROM"
  THEN QThrow("Expected FROM after DELETE", "", db)
  ELSE IF ~Listed(db, Tok(tokens, 2)) \/ ~(2 < Len(tokens))
  THEN QThrow("Table '%' does not exist", Tok(tokens, 2), db)
  ELSE
    LET name == Tok(tokens, 2)
        Deleted(o) ==
          IF Len(tokens) > 3 /\ Upper(Tok(tokens, 3)) = "WHERE"
               /\ parseCondition(tokens, 4).threw
          THEN QError(<<Msg(TypeError, "startsWith")>>, Applied(db, name, o))
          ELSE QOk(Msg("Deleted % record(s)", NumStr(o.count)), <<>>,
                   Applied(db, name, o))
    IN  IF name \notin DOMAIN db.tables
        THEN QThrow("% is not a function", "table.delete", db)
        ELSE Deleted(delete(db.tables[name], <<>>))

\* SQLParser.parseDelete
parseDelete(tokens, db) ==
  IF Upper(Tok(tokens, 1)) # "FROM"
  THEN QThrow("Expected FROM after DELETE", "", db)
  ELSE IF ~Listed(db, Tok(tokens, 2)) \/ ~(2 < Len(tokens))
  THEN QThrow("Table '%' does not exist", Tok(tokens, 2), db)
  ELSE
    LET name == Tok(tokens, 2)
        NoWhere == [threw |-> FALSE, conditions |-> <<>>]
        Deleted(o) ==
          QOk(Msg("Deleted % record(s)", NumStr(o.count)), <<>>,
              Applied(db, name, o))
        Where(cond) ==
          IF cond.threw THEN QThrow(TypeError, "startsWith", db)
          ELSE IF name \notin DOMAIN db.tables
          THEN QThrow("% is not a function", "table.delete", db)
          ELSE Deleted(delete(db.tables[name], cond.conditions))
    IN  Where(IF Len(tokens) > 3 /\ Upper(Tok(tokens, 3)) = "WHERE"
              THEN parseCondition(tokens, 4)
              ELSE NoWhere)

\* SQLParser.parseDrop
parseDrop(tokens, db) ==
  IF Upper(Tok(tokens, 1)) # "TABLE"
  THEN QThrow("Expected TABLE after DROP", "", db)
  ELSE LET Dropped(o) ==
             IF o.threw THEN QError(o.error, o)
             ELSE QOk(Msg("Table % dropped", Tok(tokens, 2)), <<>>, o)
       IN  Dropped(dropTable(db, Tok(tokens, 2)))

\* The switch of SQLParser.parseAndExecute (lines 117-134): what the parse
\* method called for the command does.
dispatch(tokens, db) ==
  LET command == Upper(Tok(tokens, 0))
  IN  CASE command = "CREATE" -> parseCreate(tokens, db)
        [] command = "INSERT" -> parseInsert(tokens, db)
        [] command = "SELECT" -> parseSelect(tokens, db)
        [] command = "UPDATE" -> parseUpdate(tokens, db)
        [] command = "DELETE" -> parseDelete(tokens, db)
        [] command = "DROP" -> parseDrop(tokens, db)
        [] command = "USE" ->
             QOk(Msg("Using database %", Tok(tokens, 1)), <<>>, db)
        [] OTHER -> QThrow("Unknown command: %", command, db)

\* SQLParser.parseAndExecute: the envelope it returns, with the database
\* as the call leaves it; no envelope when the parse method never returns.
parseAndExecute(tokens, db) ==
  LET Caught(o) ==
        [diverges |-> o.diverges,
         envelope |-> IF o.threw
                      THEN Result("envelope", FALSE, NoMsg, o.error, <<>>, 0)
                      ELSE Result("envelope", TRUE, o.message, <<>>, o.rows, 0),
         tables |-> o.tables, disk |-> o.disk]
  IN  Caught(dispatch(tokens, db))

(***************************************************************************)
(* The inputs the operations are called with.                              *)
(***************************************************************************)
\* The users schema of the demo, with name for username: id the
\* auto-increment primary key, name required and unique, age with default 18.
userSchema ==
  << ColDef("id", "number", FALSE, TRUE, FALSE, TRUE, Undef),
     ColDef("name", "string", TRUE, FALSE, TRUE, FALSE, Undef),
     ColDef("age", "number", FALSE, FALSE, FALSE, FALSE, Num(18)) >>

\* No primary key; a date column.
SchemaN ==
  << ColDef("name", "string", TRUE, FALSE, FALSE, FALSE, Undef),
     ColDef("at", "date", FALSE, FALSE, FALSE, FALSE, Undef) >>

Schemas == {userSchema, SchemaN}

TableNames == {"t"}

\* What the store is called with under Spec.
InsertRecords ==
  { Row(Absent, Str("Ann"), Absent, Absent),
    Row(Num(1), Str("Ann"), Absent, Absent),
    Row(Num(-1), Str("Ann"), Absent, Absent),
    Row(Absent, Str("Bo"), Absent, Str("2020-01-01")),
    Row(Absent, Absent, Absent, Absent),
    Row(Absent, Num(5), Absent, Absent),
    Row(Absent, Absent, Str("abc"), Absent),
    Row(Absent, Str("Ann"), Str("abc"), Absent) }

Conditions ==
  { <<>>,
    <<CondLit("id", Num(1))>>,
    <<CondLit("id", Str("1"))>>,
    <<CondOp("id", "=", Num(1))>>,
    <<CondOp("name", "=", Str("Ann"))>> }

\* The conditions update and delete are called with.
Targets == {<<>>, <<CondLit("id", Num(1))>>}

Patches ==
  { Row(Absent, Absent, Num(30), Absent),
    Row(Num(2), Absent, Absent, Absent) }

IndexColumns == {"name", "zip"}

\* The queries of the spec's example, and malformed ones.
CreateT ==
  <<"CREATE", "TABLE", "t", "(", "id", "number", "PRIMARY", "KEY",
    "AUTO_INCREMENT", ",", "name", "string", "NOT", "NULL", ",", "age",
    "number", "DEFAULT", "18", ")">>

InsertAnn == <<"INSERT", "INTO", "t", "(", "name", ")", "VALUES", "(", "'Ann'", ")">>

InsertBo ==
  <<"INSERT", "INTO", "t", "(", "name", ",", "age", ")", "VALUES", "(",
    "'Bo'", ",", "30", ")">>

InsertNoName == <<"INSERT", "INTO", "t", "(", "age", ")", "VALUES", "(", "30", ")">>

InsertNoColumns == <<"INSERT", "INTO", "t", "VALUES", "(", "'Ann'", ")">>

InsertOpen == <<"INSERT", "INTO", "t", "(", "name">>

DeleteId1 == <<"DELETE", "FROM", "t", "WHERE", "id", "=", "1">>

SelectAll == <<"SELECT", "*", "FROM", "t">>

SelectOlder ==
  <<"SELECT", "*", "FROM", "t", "WHERE", "age", ">", "18", "ORDER", "BY",
    "age", "DESC", "LIMIT", "1">>

UpdateAnn == <<"UPDATE", "t", "SET", "age", "=", "30", "WHERE", "name", "=", "'Ann'">>

\* Statements that lack a keyword, the '=' of SET, the '(' of VALUES or
\* part of the WHERE condition.
Malformed ==
  { <<"CREATE", "t">>,
    <<"INSERT", "t">>,
    <<"SELECT", "*", "t">>,
    <<"UPDATE", "t", "age", "=", "30">>,
    <<"DELETE", "t">>,
    <<"DROP", "t">>,
    <<"INSERT", "INTO", "t", "(", "name", ")", "(", "'Ann'", ")">>,
    <<"INSERT", "INTO", "t", "(", "name", ")", "VALUES", "'Ann'">>,
    <<"UPDATE", "t", "SET", "age", "30">>,
    <<"UPDATE", "t", "SET", "age", "=", "30", "WHERE", "id", "=">>,
    <<"DELETE", "FROM", "t", "WHERE", "id">>,
    <<"SELECT", "*", "FROM", "t", "WHERE", "id", "=">> }

\* SELECT * FROM t LIMIT n, n the decimal text of the limit.
SelectLimit(n) == <<"SELECT", "*", "FROM", "t", "LIMIT", n>>

\* The literals written in statements: quoted, numeric, the boolean words
\* in several letter cases, NULL, and a bare word.
Literals == {"'Ann'", "30", "TRUE", "true", "True", "false", "NULL", "abc"}

\* The statement of each kind that gives column name the literal v: as an
\* INSERT value, as an UPDATE SET value, as a WHERE comparand.
LiteralStatement(kind, v) ==
  CASE kind = "INSERT" ->
         <<"INSERT", "INTO", "t", "(", "name", ")", "VALUES", "(", v, ")">>
    [] kind = "UPDATE" -> <<"UPDATE", "t", "SET", "name", "=", v>>
    [] kind = "SELECT" ->
         <<"SELECT", "*", "FROM", "t", "WHERE", "name", "=", v>>

\* CREATE TABLE statements: the users collection of the spec's example, one
\* that marks two columns PRIMARY KEY, and the example of the REPL's help
\* text (lines 96), whose types are INT and VARCHAR.
Creates ==
  { CreateT,
    <<"CREATE", "TABLE", "t", "(", "id", "number", "PRIMARY", "KEY",
      "AUTO_INCREMENT", ",", "name", "string", "PRIMARY", "KEY", ")">>,
    <<"CREATE", "TABLE", "t", "(", "id", "INT", "PRIMARY", "KEY",
      "AUTO_INCREMENT", ",", "name", "VARCHAR", "NOT", "NULL", ",", "age",
      "INT", ")">> }

\* Names no collection of the model has.
OtherNames == {"u", "constructor"}

\* One statement of each kind that names the collection name.
StatementsOn(name) ==
  { <<"INSERT", "INTO", name, "(", "name", ")", "VALUES", "(", "'Ann'", ")">>,
    <<"SELECT", "*", "FROM", name>>,
    <<"UPDATE", name, "SET", "age", "=", "30">>,
    <<"DELETE", "FROM", name>>,
    <<"DROP", "TABLE", name>> }

Queries ==
  { CreateT, InsertAnn, InsertBo, InsertNoName, InsertNoColumns, InsertOpen,
    DeleteId1, SelectAll, SelectOlder, UpdateAnn,
    <<"DROP", "TABLE", "t">>, <<"USE", "demo">>, <<"EXPLAIN", "t">>,
    <<"SELECT", "*", "FROM", "u">>, <<>> }
    \cup Malformed \cup UNION {StatementsOn(name) : name \in OtherNames}
    \cup {SelectLimit(NumStr(n)) : n \in 0..MaxQueryRows}

(***************************************************************************)
(* The operations, called on the database and on its collections.          *)
(***************************************************************************)
Init ==
  /\ tables = NoFiles
  /\ disk = EmptyDisk
  /\ pc = "idle"
  /\ call = NoCall
  /\ result = NoResult

Db == [tables |-> tables, disk |-> disk]

\* The bounds on the catalog an operation leaves: no collection of more
\* than rows records, no id above MaxId, no bucket of more than MaxBucket
\* positions.
Within(tbls, rows) ==
  \A name \in DOMAIN tbls :
    LET T == tbls[name]
    IN  /\ Len(T.data) <= rows
        /\ \A i \in 1..Len(T.data) :
             Get(T.data[i], "id").t = "number" => Get(T.data[i], "id").n <= MaxId
        /\ \A col \in DOMAIN T.indexes : \A key \in DOMAIN T.indexes[col] :
             Len(T.indexes[col][key]) <= MaxBucket

\* db.createTable(name, schema)
CreateTable(name, schema) ==
  /\ pc = "idle"
  /\ \E o \in {createTable(Db, name, schema)} :
         /\ tables' = o.tables
         /\ disk' = o.disk
         /\ result' = IF o.threw THEN Threw(o.error) ELSE Returned(<<>>, 0)
  /\ call' = Call("createTable", name, EmptyRow, <<>>, EmptyRow, "", schema, <<>>)
  /\ pc' = "done"

\* db.dropTable(name)
DropTable(name) ==
  /\ pc = "idle"
  /\ \E o \in {dropTable(Db, name)} :
         /\ tables' = o.tables
         /\ disk' = o.disk
         /\ result' = IF o.threw THEN Threw(o.error) ELSE Returned(<<>>, 0)
  /\ call' = Call("dropTable", name, EmptyRow, <<>>, EmptyRow, "", <<>>, <<>>)
  /\ pc' = "done"

\* new Database(name) on the same directory: the catalog is built anew.
Reload ==
  /\ pc = "idle"
  /\ \E o \in {loadTables(disk)} :
         /\ tables' = o.tables
         /\ disk' = o.disk
  /\ result' = Returned(<<>>, 0)
  /\ call' = Call("reload", "", EmptyRow, <<>>, EmptyRow, "", <<>>, <<>>)
  /\ pc' = "done"

\* tables[name].insert(record)
Insert(name, record) ==
  /\ pc = "idle"
  /\ name \in DOMAIN tables
  /\ \E o \in {insert(tables[name], record)} : \E after \in {Applied(Db, name, o)} :
         /\ Within(after.tables, MaxRows)
         /\ tables' = after.tables
         /\ disk' = after.disk
         /\ result' = Seen(o, <<o.row>>)
  /\ call' = Call("insert", name, record, <<>>, EmptyRow, "", <<>>, <<>>)
  /\ pc' = "done"

\* tables[name].update(conditions, updates)
Update(name, conditions, updates) ==
  /\ pc = "idle"
  /\ name \in DOMAIN tables
  /\ \E o \in {update(tables[name], conditions, updates)} : \E after \in {Applied(Db, name, o)} :
         /\ Within(after.tables, MaxQueryRows)
         /\ tables' = after.tables
         /\ disk' = after.disk
         /\ result' = Seen(o, <<>>)
  /\ call' = Call("update", name, EmptyRow, conditions, updates, "", <<>>, <<>>)
  /\ pc' = "done"

\* tables[name].delete(conditions)
Delete(name, conditions) ==
  /\ pc = "idle"
  /\ name \in DOMAIN tables
  /\ \E o \in {delete(tables[name], conditions)} : \E after \in {Applied(Db, name, o)} :
         /\ tables' = after.tables
         /\ disk' = after.disk
         /\ result' = Seen(o, <<>>)
  /\ call' = Call("delete", name, EmptyRow, conditions, EmptyRow, "", <<>>, <<>>)
  /\ pc' = "done"

\* tables[name].createIndex(column)
CreateIndex(name, column) ==
  /\ pc = "idle"
  /\ name \in DOMAIN tables
  /\ \E o \in {createIndex(tables[name], column)} : \E after \in {AppliedIndex(Db, name, o)} :
         /\ tables' = after.tables
         /\ disk' = after.disk
         /\ result' = Seen(o, <<>>)
  /\ call' = Call("createIndex", name, EmptyRow, <<>>, EmptyRow, column, <<>>, <<>>)
  /\ pc' = "done"

\* A find that filters the record sequence in place: the collection keeps
\* only what was found.
FindInPlace(name, conditions) ==
  /\ pc = "idle"
  /\ name \in DOMAIN tables
  /\ result' = Returned(find(tables[name], conditions), 0)
  /\ call' = Call("find", name, EmptyRow, conditions, EmptyRow, "", <<>>, <<>>)
  /\ pc' = "done"
  /\ tables' = [tables EXCEPT ![name].data = find(tables[name], conditions)]
  /\ UNCHANGED disk

\* tables[name].find(conditions)
Find(name, conditions) ==
  /\ pc = "idle"
  /\ name \in DOMAIN tables
  /\ result' = Returned(find(tables[name], conditions), 0)
  /\ call' = Call("find", name, EmptyRow, conditions, EmptyRow, "", <<>>, <<>>)
  /\ pc' = "done"
  /\ UNCHANGED <<tables, disk>>

\* parser.parseAndExecute(query, db), or db.query(query).  A call that
\* never returns leaves the process in it: pc = "query" for ever.
Query(query) ==
  /\ pc = "idle"
  /\ \E o \in {parseAndExecute(query, Db)} :
         /\ Within(o.tables, MaxQueryRows)
         /\ tables' = o.tables
         /\ disk' = o.disk
         /\ result' = IF o.diverges THEN NoResult ELSE o.envelope
         /\ pc' = IF o.diverges THEN "query" ELSE "done"
  /\ call' = Call("query", "", EmptyRow, <<>>, EmptyRow, "", <<>>, query)

\* The caller takes the result; the next operation may be called.
Return ==
  /\ pc = "done"
  /\ pc' = "idle"
  /\ call' = NoCall
  /\ result' = NoResult
  /\ UNCHANGED <<tables, disk>>

\* The store and the catalog, called directly.
Next ==
  \/ \E name \in TableNames, schema \in Schemas : CreateTable(name, schema)
  \/ \E name \in TableNames : DropTable(name)
  \/ Reload
  \/ \E name \in TableNames, record \in InsertRecords : Insert(name, record)
  \/ \E name \in TableNames, conditions \in Targets, updates \in Patches :
       Update(name, conditions, updates)
  \/ \E name \in TableNames, conditions \in Targets :
       Delete(name, conditions)
  \/ \E name \in TableNames, column \in IndexColumns : CreateIndex(name, column)
  \/ \E name \in TableNames, conditions \in Conditions : Find(name, conditions)
  \/ Return

Spec == Init /\ [][Next]_vars

\* The query entry point, and records inserted, updated and read directly.
QueryNext ==
  \/ \E query \in Queries : Query(query)
  \/ \E name \in TableNames, record \in InsertRecords : Insert(name, record)
  \/ \E name \in TableNames, updates \in Patches,
        conditions \in Targets \cup {<<CondOp("age", "=", Num(18))>>} :
       Update(name, conditions, updates)
  \/ \E name \in TableNames, conditions \in Conditions : Find(name, conditions)
  \/ Reload
  \/ Return

SpecQuery == Init /\ [][QueryNext]_vars

\* Statements that create a collection and give a column a literal.
StatementNext ==
  \/ \E query \in Creates : Query(query)
  \/ \E kind \in {"INSERT", "UPDATE", "SELECT"}, v \in Literals :
       Query(LiteralStatement(kind, v))
  \/ Return

SpecStatement == Init /\ [][StatementNext]_vars

\* The catalog: collections are created, by call and by statement, filled,
\* dropped and reloaded, one of them with a primary key column named
\* constructor.
CatalogNext ==
  \/ \E name \in {"t", "u"},
        schema \in Schemas \cup
          {<<ColDef("constructor", "number", FALSE, TRUE, FALSE, FALSE, Undef)>>} :
       CreateTable(name, schema)
  \/ \E query \in Creates \cup {InsertAnn} : Query(query)
  \/ \E name \in TableNames, record \in InsertRecords : Insert(name, record)
  \/ \E name \in {"t", "u"} : DropTable(name)
  \/ Reload
  \/ Return

SpecCatalog == Init /\ [][CatalogNext]_vars

(***************************************************************************)
(* Properties.  A state with pc = "done" is the state an operation leaves: *)
(* call is the operation and its arguments, result what it returned or     *)
(* threw.  A step into such a state is the operation itself.               *)
(***************************************************************************)
\* The last call was op on a collection of the catalog, and has ended.
Ended(ops) == pc = "done" /\ call.op \in ops /\ call.name \in DOMAIN tables

\* Whether the bucket lists position p.
Lists(bucket, p) == \E k \in 1..Len(bucket) : bucket[k] = p

\* Every record is listed under its value and every position listed under
\* w is that of a record whose value is w.
IndexConsistent(T) ==
  \A c \in DOMAIN T.indexes :
    /\ \A p \in 1..Len(T.data) :
         Get(T.data[p], c) # Undef =>
           /\ ToStr(Get(T.data[p], c)) \in DOMAIN T.indexes[c]
           /\ Lists(T.indexes[c][ToStr(Get(T.data[p], c))], p - 1)
    /\ \A w \in DOMAIN T.indexes[c] : \A k \in 1..Len(T.indexes[c][w]) :
         /\ T.indexes[c][w][k] + 1 \in 1..Len(T.data)
         /\ Get(T.data[T.indexes[c][w][k] + 1], c) # Undef
         /\ ToStr(Get(T.data[T.indexes[c][w][k] + 1], c)) = w

\* C1: in the state an insert, update or delete leaves, every indexed
\* column's buckets list every record under its value, and list no stale
\* or out-of-range position.
C1_IndexConsistency ==
  Ended({"insert", "update", "delete"}) => IndexConsistent(tables[call.name])

UniqueColumns(T) ==
  {T.schema[k].name : k \in {j \in 1..Len(T.schema) : T.schema[j].unique}}

\* Two records of T hold equal values for column c.
Duplicated(T, c) ==
  \E i, j \in 1..Len(T.data) :
    i < j /\ StrictEq(Get(T.data[i], c), Get(T.data[j], c))

\* C2: in the state an insert or update leaves, no two records hold equal
\* values for a unique column (the primary key included).
C2_Uniqueness ==
  Ended({"insert", "update"}) =>
    \A c \in UniqueColumns(tables[call.name]) :
      ~Duplicated(tables[call.name], c)

\* C3: DELETE FROM t WHERE id = 1, when it succeeds, removes exactly the
\* records of t whose id equals 1.
C3_DeleteWhereId ==
  [][(call'.op = "query" /\ call'.query = DeleteId1 /\ result'.success) =>
       tables'["t"].data =
         SelectSeq(tables["t"].data,
                   LAMBDA r : ~LooseEq(Get(r, "id"), Num(1)))]_vars

\* C4: find with one operator-mapping condition {col: {op: literal}}
\* returns, in sequence order, exactly the records r with r[col] op literal,
\* with or without an index on col.
C4_FindOperator ==
  (Ended({"find"}) /\ Len(call.conditions) = 1 /\ call.conditions[1].isOps) =>
    result.rows =
      SelectSeq(tables[call.name].data,
                LAMBDA r : \A j \in 1..Len(call.conditions[1].ops) :
                   compare(Get(r, call.conditions[1].col),
                           call.conditions[1].ops[j].op,
                           call.conditions[1].ops[j].val))

\* The numbers the records of T hold for column c.
Stored(T, c) ==
  {Get(T.data[i], c).n :
     i \in {j \in 1..Len(T.data) : /\ Get(T.data[j], c).t = "number"
                                   /\ ~IsNaN(Get(T.data[j], c))}}

Greatest(S) == CHOOSE m \in S : \A x \in S : x <= m

\* The step is a successful insert of a record that supplies no value for
\* the auto-increment column c.
AutoAssigned(c) ==
  /\ call'.op = "insert"
  /\ result'.kind = "return"
  /\ call'.record[c] = Absent
  /\ \E k \in 1..Len(tables[call'.name].schema) :
       /\ tables[call'.name].schema[k].name = c
       /\ tables[call'.name].schema[k].autoIncrement

\* C5 as stated: the value assigned is 1 + the maximum of the column over
\* the records in the collection, 1 when the collection is empty.
C5_MaxPlusOne ==
  [][\A c \in AllCols : AutoAssigned(c) =>
       Get(result'.rows[1], c) =
         IF Len(tables[call'.name].data) = 0 THEN Num(1)
         ELSE Num(Greatest(Stored(tables[call'.name], c)) + 1)]_vars

\* C5: the value assigned is 1 + the greatest of 0 and the numbers the
\* column holds, and differs from every value the column holds.
C5_AutoIncrement ==
  [][\A c \in AllCols : AutoAssigned(c) =>
       /\ Get(result'.rows[1], c) =
            Num(Greatest(Stored(tables[call'.name], c) \cup {0}) + 1)
       /\ \A i \in 1..Len(tables[call'.name].data) :
            ~StrictEq(Get(tables[call'.name].data[i], c),
                      Get(result'.rows[1], c))]_vars

\* A value was assigned where 1 + the maximum and the code differ: the
\* collection held the id -1 alone.
C5_Assigned ==
  /\ Ended({"insert"})
  /\ result.kind = "return"
  /\ call.record.id = Absent
  /\ Len(tables[call.name].data) = 2
  /\ Get(tables[call.name].data[1], "id") = Num(-1)
  /\ Get(tables[call.name].data[2], "id") = Num(1)


\* The record lacks a required column that has no default and is not
\* auto-increment.
MissingRequired(T, record) ==
  \E k \in 1..Len(T.schema) :
    /\ T.schema[k].required
    /\ ~T.schema[k].autoIncrement
    /\ T.schema[k].defaultValue = Undef
    /\ ~Has(record, T.schema[k].name)

\* The INSERT statements of the model that give the column name no value.
NamelessInserts == {InsertNoName, InsertNoColumns}

\* The error raised names a missing required column.
SaysMissing(error) ==
  \E k \in 1..Len(error) : error[k].msg = "Required column '%' is missing"

\* C6: an insert of a record that lacks a required column without default
\* fails with the validation error and appends nothing, called on the
\* collection or written as an INSERT statement.
C6_MissingRequired ==
  [][/\ (/\ call'.op = "insert"
         /\ MissingRequired(tables[call'.name], call'.record)) =>
           /\ result'.kind = "throw"
           /\ SaysMissing(result'.error)
           /\ tables'[call'.name].data = tables[call'.name].data
     /\ (/\ call'.op = "query"
         /\ call'.query \in NamelessInserts
         /\ "t" \in DOMAIN tables
         /\ MissingRequired(tables["t"], EmptyRow)) =>
           /\ pc' = "done"
           /\ ~result'.success
           /\ SaysMissing(result'.error)
           /\ tables'["t"].data = tables["t"].data]_vars

\* An INSERT statement without the required name was rejected on a
\* collection that holds records.
C6_Rejected ==
  /\ pc = "done"
  /\ call.op = "query"
  /\ call.query = InsertNoName
  /\ ~result.success
  /\ SaysMissing(result.error)
  /\ "t" \in DOMAIN tables
  /\ Len(tables["t"].data) > 0

\* C7: an insert that throws leaves the collection (records and indexes)
\* and the files of the directory as they were.
C7_FailedInsert ==
  [][(call'.op = "insert" /\ result'.kind = "throw") =>
       tables' = tables /\ disk' = disk]_vars

\* An insert was rejected for a duplicate unique value, on a collection
\* that holds a record and has files.
C7_RejectedDuplicate ==
  /\ Ended({"insert"})
  /\ result.kind = "throw"
  /\ \E k \in 1..Len(result.error) :
       result.error[k].msg = "Duplicate value for unique column '%'"
  /\ Len(tables[call.name].data) > 0
  /\ call.name \in DOMAIN disk.data

\* C8: a reload hands back every collection that holds records with the
\* same records in the same order.
C8_RoundTrip ==
  [][call'.op = "reload" =>
       \A name \in DOMAIN tables :
         Len(tables[name].data) > 0 =>
           /\ name \in DOMAIN tables'
           /\ tables'[name].data = tables[name].data]_vars

\* C9: a reload hands back every collection of the catalog, with its
\* schema.
C9_SurvivesReload ==
  [][call'.op = "reload" =>
       \A name \in DOMAIN tables :
         /\ name \in DOMAIN tables'
         /\ tables'[name].schema = tables[name].schema]_vars

\* C10: every call of parseAndExecute has returned an envelope, with
\* success and a message or with the error raised.
C10_Envelope ==
  call.op = "query" =>
    /\ pc = "done"
    /\ result.kind = "envelope"
    /\ result.success \/ Len(result.error) > 0

\* C11: every call of parseAndExecute ends: no call is in a state it never
\* leaves (pc = "query" is the state of a parse method that never returns).
C11_Terminates == pc # "query"

\* The messages of the errors the parse methods raise for a statement they
\* cannot parse.
ParseErrors ==
  { "Expected TABLE after CREATE", "Expected INTO after INSERT",
    "Expected FROM in SELECT", "Expected SET after table name",
    "Expected VALUES", "Expected = after column name",
    "Expected ( after VALUES", "Expected FROM after DELETE",
    "Expected TABLE after DROP", TypeError }

IsParseError(error) == \E k \in 1..Len(error) : error[k].msg \in ParseErrors

\* C12: a query that is answered with a parse error leaves the catalog,
\* every collection's records and indexes, and the files as they were; and
\* every statement that lacks a keyword, '=', '(' or part of its WHERE
\* condition is answered with success false and changes nothing.
C12_ParseErrorFirst ==
  [][/\ (call'.op = "query" /\ pc' = "done" /\ IsParseError(result'.error)) =>
          tables' = tables /\ disk' = disk
     /\ (call'.op = "query" /\ call'.query \in Malformed) =>
          /\ pc' = "done"
          /\ ~result'.success
          /\ tables' = tables /\ disk' = disk]_vars

\* A DELETE with an incomplete WHERE condition was rejected with the parse
\* error, on a collection that holds records and has files.
C12_RejectedWhere ==
  /\ pc = "done"
  /\ call.op = "query"
  /\ call.query = <<"DELETE", "FROM", "t", "WHERE", "id">>
  /\ ~result.success
  /\ IsParseError(result.error)
  /\ "t" \in DOMAIN tables
  /\ Len(tables["t"].data) > 0
  /\ "t" \in DOMAIN disk.data

\* C13: an INSERT, SELECT, UPDATE, DELETE or DROP that names a collection
\* the catalog does not hold is answered with success false and the error
\* "Table '<name>' does not exist", and leaves the catalog, the collections
\* and the files as they were.
C13_NoSuchTable ==
  [][\A name \in OtherNames :
       (/\ call'.op = "query"
        /\ call'.query \in StatementsOn(name)
        /\ name \notin DOMAIN tables) =>
          /\ pc' = "done"
          /\ ~result'.success
          /\ result'.error = <<Msg("Table '%' does not exist", name)>>
          /\ tables' = tables /\ disk' = disk]_vars

\* The update raised the duplicate primary key error.
SaysDuplicateKey(error) ==
  \E k \in 1..Len(error) : error[k].msg = "Duplicate primary key value"

\* C14: an update that fails with 'Duplicate primary key value' has written
\* no row: every record of the collection is as it was before the call.
C14_FailedUpdate ==
  [][(call'.op = "update" /\ SaysDuplicateKey(result'.error)) =>
       tables'[call'.name].data = tables[call'.name].data]_vars

\* An update of the primary key that matched two of three records was
\* rejected for the duplicate.
C14_RejectedSeveral ==
  /\ Ended({"update"})
  /\ SaysDuplicateKey(result.error)
  /\ Len(tables[call.name].data) = 3
  /\ Len(find(tables[call.name], call.conditions)) = 2

\* The first n elements of rows, all of them when there are fewer.
FirstRows(rows, n) == SubSeq(rows, 1, IF n < Len(rows) THEN n ELSE Len(rows))

\* C15: SELECT * FROM t LIMIT n returns exactly the first min(n, m) of the
\* m records of t, for n = 0 as for every other limit, and SELECT * FROM t
\* without LIMIT returns all m.
C15_Limit ==
  [][/\ \A n \in 0..MaxQueryRows :
          (/\ call'.op = "query"
           /\ call'.query = SelectLimit(NumStr(n))
           /\ "t" \in DOMAIN tables) =>
             /\ result'.success
             /\ result'.rows = FirstRows(tables["t"].data, n)
     /\ (call'.op = "query" /\ call'.query = SelectAll
          /\ "t" \in DOMAIN tables) =>
             /\ result'.success
             /\ result'.rows = tables["t"].data]_vars

\* The coercion the three statements are said to share: a quoted literal
\* is the string between the quotes, a numeric one the number, TRUE and
\* FALSE in any letter case the boolean, NULL null, any other the raw text.
Coercion(v) ==
  IF IsQuoted(v) THEN Str(Unquote(v))
  ELSE IF IsNumericText(v) THEN Num(TextNum(v))
  ELSE IF Upper(v) = "TRUE" THEN Bool(TRUE)
  ELSE IF Upper(v) = "FALSE" THEN Bool(FALSE)
  ELSE IF v = "NULL" THEN Null
  ELSE Str(v)

NameOnly(value) == Row(Absent, value, Absent, Absent)

\* C16: a statement that gives column name the literal v does what the
\* store call with the coerced literal does: INSERT what insert({name: c})
\* does, UPDATE what update({}, {name: c}) does, SELECT ... WHERE name = v
\* returns find({name: {'=': c}}), with c the coercion of v.
C16_Coercion ==
  [][\A v \in Literals :
       (call'.op = "query" /\ "t" \in DOMAIN tables) =>
         /\ call'.query = LiteralStatement("INSERT", v) =>
              /\ result'.success = ~insert(tables["t"], NameOnly(Coercion(v))).threw
              /\ tables'["t"] = insert(tables["t"], NameOnly(Coercion(v))).T
         /\ call'.query = LiteralStatement("UPDATE", v) =>
              /\ result'.success =
                   ~update(tables["t"], <<>>, NameOnly(Coercion(v))).threw
              /\ tables'["t"] = update(tables["t"], <<>>, NameOnly(Coercion(v))).T
         /\ call'.query = LiteralStatement("SELECT", v) =>
              /\ result'.success
              /\ result'.rows =
                   find(tables["t"], <<CondOp("name", "=", Coercion(v))>>)]_vars

\* C17: on a collection without a primary key, an update or delete that
\* returns reports as its count the number of records find(conditions)
\* returns; the delete leaves that many records fewer, and the update
\* leaves every record as validateRecord makes it with the updates applied.
C17_NoPrimaryKey ==
  [][(/\ call'.op \in {"update", "delete"}
      /\ tables[call'.name].primaryKey = NoKey
      /\ result'.kind = "return") =>
        /\ result'.count = Len(find(tables[call'.name], call'.conditions))
        /\ call'.op = "delete" =>
             Len(tables'[call'.name].data) =
               Len(tables[call'.name].data) - result'.count
        /\ (call'.op = "update" /\ call'.conditions = <<>>) =>
             \A k \in 1..Len(tables[call'.name].data) :
               tables'[call'.name].data[k] =
                 validateRecord(tables[call'.name],
                   Spread(tables[call'.name].data[k], call'.updates)).result]_vars

PrimaryKeys(T) == {k \in 1..Len(T.schema) : T.schema[k].primaryKey}

\* C18: no collection of the catalog has more than one schema column
\* marked primaryKey.
C18_OnePrimaryKey ==
  \A name \in DOMAIN tables : Cardinality(PrimaryKeys(tables[name])) <= 1

\* The types validateType knows.
KnownTypes == {"string", "number", "boolean", "date", "object", "array"}

\* C19: no collection of the catalog has a column whose declared type is
\* other than string, number, boolean, date, object or array.
C19_KnownTypes ==
  \A name \in DOMAIN tables : \A k \in 1..Len(tables[name].schema) :
    tables[name].schema[k].type \in KnownTypes

\* C20: every stored record holds, for each required column of its
\* collection, a value that is present and neither null nor undefined.
C20_RequiredPresent ==
  \A name \in DOMAIN tables :
    \A i \in 1..Len(tables[name].data), k \in 1..Len(tables[name].schema) :
      tables[name].schema[k].required =>
        Get(tables[name].data[i], tables[name].schema[k].name).t
          \notin {"absent", "undefined", "null"}

\* C21: every collection of the catalog that has a primary key has an
\* index on the primary key column.
C21_PrimaryKeyIndex ==
  \A name \in DOMAIN tables :
    tables[name].primaryKey # NoKey =>
      tables[name].primaryKey \in DOMAIN tables[name].indexes

\* The collection name is neither in the catalog tbls nor in the files d.
Gone(tbls, d, name) ==
  /\ name \notin DOMAIN tbls
  /\ name \notin DOMAIN d.schema \cup DOMAIN d.data \cup DOMAIN d.index

NoEntries(T) ==
  \A c \in DOMAIN T.indexes : \A w \in DOMAIN T.indexes[c] :
    Len(T.indexes[c][w]) = 0

\* C22: a dropTable that succeeds leaves the collection out of the catalog
\* and without files; a collection that is gone stays gone under every
\* step but a createTable of its name, a reload included; and a
\* createTable of its name succeeds with no records and no index entries.
C22_DroppedForGood ==
  [][\A name \in TableNames :
       /\ (call'.op = "dropTable" /\ call'.name = name
            /\ result'.kind = "return") => Gone(tables', disk', name)
       /\ (Gone(tables, disk, name)
            /\ ~(call'.op = "createTable" /\ call'.name = name)) =>
              Gone(tables', disk', name)
       /\ (Gone(tables, disk, name)
            /\ call'.op = "createTable" /\ call'.name = name) =>
              /\ result'.kind = "return"
              /\ tables'[name].data = <<>>
              /\ NoEntries(tables'[name])]_vars

\* A dropTable has succeeded and left the collection gone.
C22_Dropped ==
  /\ pc = "done"
  /\ call.op = "dropTable"
  /\ result.kind = "return"
  /\ Gone(tables, disk, call.name)

\* The records of T that satisfy the conditions, and those that do not.
Satisfying(T, conditions) ==
  SelectSeq(T.data, LAMBDA r : ScanMatch(r, conditions))

Others(T, conditions) ==
  SelectSeq(T.data, LAMBDA r : ~ScanMatch(r, conditions))

\* C23: on a collection with a primary key, delete(conditions) leaves
\* exactly the records that do not satisfy the conditions, in their order,
\* and returns the number of records that satisfy them.
C23_DeleteExactly ==
  [][(call'.op = "delete" /\ tables[call'.name].primaryKey # NoKey) =>
       /\ result'.kind = "return"
       /\ tables'[call'.name].data = Others(tables[call'.name], call'.conditions)
       /\ result'.count =
            Len(Satisfying(tables[call'.name], call'.conditions))]_vars

\* C24: on a collection with a primary key, an update that returns leaves
\* every record that does not satisfy the conditions as it was, replaces
\* every record that satisfies them by the validated merge of the record
\* with the patch, and returns the number of records that satisfy them.
C24_UpdateExactly ==
  [][(/\ call'.op = "update"
      /\ tables[call'.name].primaryKey # NoKey
      /\ result'.kind = "return") =>
       /\ Len(tables'[call'.name].data) = Len(tables[call'.name].data)
       /\ \A k \in 1..Len(tables[call'.name].data) :
            tables'[call'.name].data[k] =
              IF ScanMatch(tables[call'.name].data[k], call'.conditions)
              THEN validateRecord(tables[call'.name],
                     Spread(tables[call'.name].data[k], call'.updates)).result
              ELSE tables[call'.name].data[k]
       /\ result'.count =
            Len(Satisfying(tables[call'.name], call'.conditions))]_vars

\* C25: an update that throws leaves the indexes of the collection as they
\* were before the call.
C25_FailedUpdateIndexes ==
  [][(call'.op = "update" /\ result'.kind = "throw") =>
       tables'[call'.name].indexes = tables[call'.name].indexes]_vars

\* C26: in the state an insert, update, delete or createIndex leaves,
\* whether it returned or threw, the data file holds the records of the
\* collection (as JSON writes them) and the index file holds its indexes;
\* a file that does not exist counts as an empty one.
C26_FilesInStep ==
  Ended({"insert", "update", "delete", "createIndex"}) =>
    /\ load(disk, call.name) = JsonData(tables[call.name].data)
    /\ loadIndexes(disk, call.name) = tables[call.name].indexes

\* The records of T whose column c is strictly equal to the literal v, in
\* the order of the record sequence.
Equal(T, c, v) == SelectSeq(T.data, LAMBDA record : StrictEq(Get(record, c), v))

\* C27: in every reachable state, find({c: v}) on an indexed column c with a
\* literal v returns the same records, in the same order, as filtering the
\* current record sequence with record[c] === v.
C27_IndexIsScan ==
  (/\ Ended({"find"})
   /\ Len(call.conditions) = 1
   /\ ~call.conditions[1].isOps
   /\ call.conditions[1].col \in DOMAIN tables[call.name].indexes) =>
    result.rows =
      Equal(tables[call.name], call.conditions[1].col, call.conditions[1].lit)

\* The calls that only read: find (findOne and findAll are a find whose
\* result is cut to its first record, or a find of every record), and the
\* statements SELECT and USE.
ReadOnly(c) ==
  \/ c.op = "find"
  \/ c.op = "query" /\ Upper(Tok(c.query, 0)) \in {"SELECT", "USE"}

\* C28: a find, a SELECT statement and a USE statement leave the catalog,
\* every collection's records and indexes, and the persisted files as they
\* were, whether they succeed or fail.
C28_ReadOnly ==
  [][
    (pc = "idle" /\ ReadOnly(call')) => (tables' = tables /\ disk' = disk)
  ]_vars

\* A SELECT with WHERE, ORDER BY and LIMIT has answered from a collection of
\* several records, some of which it did not select.
C28_Selected ==
  /\ pc = "done" /\ call.op = "query" /\ call.query = SelectOlder
  /\ result.success /\ Len(result.rows) = 1
  /\ "t" \in DOMAIN tables /\ Len(tables["t"].data) >= 2

\* Whether call c creates a collection called name: db.createTable(name,
\* schema), or a CREATE TABLE statement with a column list.
CreatesTable(c, name) ==
  \/ c.op = "createTable" /\ c.name = name
  \/ c.op = "query" /\ c.query \in Creates /\ Tok(c.query, 2) = name

\* C29: creating a collection under the name of one the catalog already
\* holds fails with "Table '<name>' already exists", and the catalog, the
\* collection's schema, records and indexes, and the files stay as they were.
C29_AlreadyExists ==
  [][
    \A name \in DOMAIN tables :
      (pc = "idle" /\ CreatesTable(call', name)) =>
        /\ ~result'.success
        /\ result'.error = <<Msg("Table '%' already exists", name)>>
        /\ tables' = tables
        /\ disk' = disk
  ]_vars

\* createTable was refused on a collection that holds records.
C29_Refused ==
  /\ pc = "done" /\ call.op = "createTable" /\ result.kind = "throw"
  /\ call.name \in DOMAIN tables
  /\ Len(tables[call.name].data) >= 1
  /\ call.schema # tables[call.name].schema

\* The message of the rule that record breaks on the column of def, if any:
\* a required column without default is missing, the supplied value is not
\* of the column's type, or the column is unique and indexed and another
\* record (one with a different primary key value, or any record when there
\* is no primary key) holds the coerced value.
NoViolation == <<>>

Violation(T, record, def) ==
  LET column == def.name
      value == Get(record, column)
      Another(row) ==
        \/ T.primaryKey = NoKey
        \/ ~StrictEq(Get(row, T.primaryKey), Get(record, T.primaryKey))
  IN  IF ~Has(record, column)
      THEN IF ~def.autoIncrement /\ def.required /\ def.defaultValue = Undef
           THEN <<Msg("Required column '%' is missing", column)>>
           ELSE NoViolation
      ELSE IF ~validateType(value, def.type)
      THEN <<Msg("Invalid type for '%'", column)>>
      ELSE IF /\ def.unique
              /\ column \in DOMAIN T.indexes
              /\ \E i \in 1..Len(T.data) :
                   /\ Another(T.data[i])
                   /\ StrictEq(Get(T.data[i], column),
                               coerceValue(value, def.type))
      THEN <<Msg("Duplicate value for unique column '%'", column)>>
      ELSE NoViolation

\* The violations of record, in schema column order.
RECURSIVE Violations(_, _, _)
Violations(T, record, k) ==
  IF k > Len(T.schema) THEN <<>>
  ELSE Violation(T, record, T.schema[k]) \o Violations(T, record, k + 1)

\* C30: an insert of a record that breaks the schema on several columns
\* throws one error that lists one message for every violation, in schema
\* column order.
C30_AllViolations ==
  [][
    \A name \in DOMAIN tables :
      (/\ pc = "idle" /\ call'.op = "insert" /\ call'.name = name
       /\ Len(Violations(tables[name], call'.record, 1)) >= 2) =>
        /\ result'.kind = "throw"
        /\ result'.error = Violations(tables[name], call'.record, 1)
  ]_vars

\* The record a successful insert has appended.
Pushed(T) == T.data[Len(T.data)]

\* The schema of the example: id the auto-increment primary key, name
\* required, age a number with default 18.
UsersLike(schema) ==
  /\ Len(schema) = 3
  /\ schema[1].name = "id" /\ schema[1].primaryKey /\ schema[1].autoIncrement
  /\ schema[2].name = "name" /\ schema[2].type = "string"
  /\ schema[2].required
  /\ schema[3].name = "age" /\ schema[3].type = "number"
  /\ compare(Num(18), "=", schema[3].defaultValue)

\* Whether stored is the default of the column of def: a value of the
\* column's type that equals the default the schema gives.
IsDefault(stored, def) ==
  /\ stored # Absent
  /\ validateType(stored, def.type)
  /\ compare(stored, "=", def.defaultValue)

=============================================================================
